---- MODULE Spec2Model ----
(***************************************************************************)
(* State keeper I/O helpers of core/bin/zksync_core/src/state_keeper/io/   *)
(* common.rs: l1_batch_params, poll_iters and load_pending_batch.          *)
(*                                                                         *)
(* Six specifications share the variables:                                 *)
(*   Spec        one run of load_pending_batch against a storage, with the *)
(*               sibling that publishes L1 batch state roots;              *)
(*   SpecLive    Spec with the fairness of the executor and the sibling;   *)
(*   SpecLiveAlone  Spec with the fairness of the executor alone;          *)
(*   SpecCancel  Spec with the cancellation of the owning task;            *)
(*   SpecPoll    poll_iters applied to bounded inputs;                     *)
(*   SpecParams  l1_batch_params applied to bounded inputs.                *)
(***************************************************************************)
EXTENDS Integers, Sequences, FiniteSets, TLC

VARIABLES
    \* storage (the Postgres tables read through StorageProcessor)
    miniblock_ranges,        \* L1 batch number -> None | Some(<<first, last>>)
    miniblock_headers,       \* miniblock number -> None | Some(header)
    state_roots,             \* L1 batch number -> None | Some(H256 root hash)
    txs_to_reexecute,        \* ordered transactions not yet sealed in a batch
    storage_healthy,         \* FALSE: a query may fail with a storage error
    \* arguments of load_pending_batch
    current_l1_batch_number,
    fee_account,
    \* the load_pending_batch future
    pc,                      \* await point the future is suspended at
    pending_miniblock_number,
    pending_miniblock_header,
    previous_l1_batch_hash,
    params,
    result,                  \* NoResult | Returned(None | Some(PendingBatchData))
    panic,                   \* None | the query the future panicked in
    queries,                 \* storage queries issued so far, in order
    misses,                  \* polls that found the state root unpublished
    sleeps,                  \* delay intervals slept through
    \* poll_iters call
    overflow_checks,         \* the build panics on integer overflow (debug)
    poll_in,
    poll_out,
    \* l1_batch_params call
    bp_in,
    bp_out

storageVars == <<miniblock_ranges, miniblock_headers, state_roots,
                 txs_to_reexecute, storage_healthy>>
argVars == <<current_l1_batch_number, fee_account>>
taskVars == <<pc, pending_miniblock_number, pending_miniblock_header,
              previous_l1_batch_hash, params, result, panic, queries, misses,
              sleeps>>
pollVars == <<overflow_checks, poll_in, poll_out>>
bpVars == <<bp_in, bp_out>>
vars == <<storageVars, argVars, taskVars, pollVars, bpVars>>

----------------------------------------------------------------------------
(* Bounds *)

MaxBatch == 2          \* L1 batch numbers 0..MaxBatch
MaxMiniblock == 3      \* miniblock numbers 0..MaxMiniblock
MaxTxs == 2            \* length of the list of transactions to reexecute
MaxPolls == 3          \* the counters misses and sleeps saturate here
MaxHalfMillis == 7     \* durations 0, 0.5ms, .. MaxHalfMillis * 0.5ms
MaxGas == 2            \* gas prices and timestamps 1..MaxGas of l1_batch_params

----------------------------------------------------------------------------
(* Values *)

\* Option<T>: the empty set or the set of one value.
None == {}
Some(v) == {v}
Unwrap(o) == CHOOSE v \in o : TRUE

\* What a call has come to: nothing yet, a panic, or a returned value.
NotCalled == {}
Panics(message) == {[panicked |-> TRUE, message |-> message, value |-> {}]}
Returns(v) == {[panicked |-> FALSE, message |-> "", value |-> {v}]}

\* load_pending_batch has not returned, or has returned the option o.
NoResult == [returned |-> FALSE, value |-> None]
Returned(o) == [returned |-> TRUE, value |-> o]

Panicked == "panicked"

Min(a, b) == IF a < b THEN a ELSE b
Max(a, b) == IF a > b THEN a ELSE b

HashLen == 32

\* H256: 32 bytes, most significant first.  The hashes of the model differ in
\* their two last bytes.
H256(hi, lo) == [i \in 1..HashLen |-> IF i = HashLen THEN lo
                                      ELSE IF i = HashLen - 1 THEN hi ELSE 0]

\* U256 is four little-endian u64 limbs: its bytes, least significant first.
h256_to_u256(h) == [i \in 1..HashLen |-> h[HashLen + 1 - i]]

\* The zero U256, U256::default().
ZeroU256 == [i \in 1..HashLen |-> 0]

ZKPORTER_IS_AVAILABLE == FALSE

Addresses == {"0xaa", "0xbb"}
Transactions == {"tx1", "tx2"}

Batches == 0..MaxBatch
Miniblocks == 0..MaxMiniblock


----------------------------------------------------------------------------
(* Storage contents *)

\* The header stored for miniblock m; every field differs from every other
\* field and from the fields of the other miniblocks.
MiniblockHeader(m) ==
    [number |-> m,
     timestamp |-> 100 + m,
     l1_gas_price |-> 200 + m,
     l2_fair_gas_price |-> 300 + m,
     base_system_contracts_hashes |->
         [bootloader |-> H256(1, m), default_aa |-> H256(2, m)]]

\* The state root the tree computes for L1 batch n.
StateRoot(n) == H256(3, n)

SystemContractCode(hash) == [code |-> <<"bytecode", hash>>, hash |-> hash]

\* Sequences over S of length at most n in which no element occurs twice (a
\* transaction is stored once).
SeqsUpTo(S, n) ==
    {s \in UNION {[1..k -> S] : k \in 0..n} :
        \A i, j \in DOMAIN s : i # j => s[i] # s[j]}

\* L1 batches 0..k are sealed and own consecutive miniblock ranges whose last
\* miniblocks are lasts[0] < lasts[1] < ..; the other batches own none yet.
SealedRanges(lasts, k) ==
    [n \in Batches |->
        IF n <= k
        THEN Some(<<IF n = 0 THEN 0 ELSE lasts[n - 1] + 1, lasts[n]>>)
        ELSE None]

----------------------------------------------------------------------------
(* Storage queries (zksync_dal) *)

get_miniblock_range_of_l1_batch(n) == miniblock_ranges[n]

get_miniblock_header(m) ==
    IF m \in DOMAIN miniblock_headers THEN miniblock_headers[m] ELSE None

get_l1_batch_state_root(n) == state_roots[n]

get_base_system_contracts(bootloader, default_aa) ==
    [bootloader |-> SystemContractCode(bootloader),
     default_aa |-> SystemContractCode(default_aa)]

get_transactions_to_reexecute == txs_to_reexecute

\* A query either returns or, on a storage that is not healthy, may fail.
QueryFails == IF storage_healthy THEN {FALSE} ELSE BOOLEAN

Query(kind, arg) == [kind |-> kind, arg |-> arg]

----------------------------------------------------------------------------
(* l1_batch_params *)

\* BlockContext -> DerivedBlockContext: the context is kept whole (the fee
\* fields derived from it are defined by the VM and are not part of the model).
DerivedBlockContext(context) == [context |-> context]

NewBlock(derived, previous_block_hash) ==
    [tag |-> "NewBlock", derived |-> derived,
     previous_block_hash |-> previous_block_hash]

\* Mutant: the two gas prices change places.
l1_batch_params_swapped(l1_batch_number, operator_address, l1_batch_timestamp, previous_block_hash, l1_gas_price, fair_l2_gas_price, base_system_contracts) ==
    [context_mode |->
         NewBlock(DerivedBlockContext(
                      [block_number |-> l1_batch_number,
                       block_timestamp |-> l1_batch_timestamp,
                       l1_gas_price |-> fair_l2_gas_price,
                       fair_l2_gas_price |-> l1_gas_price,
                       operator_address |-> operator_address]),
                  previous_block_hash),
     properties |->
         [default_aa_code_hash |->
              h256_to_u256(base_system_contracts.default_aa.hash),
          zkporter_is_available |-> ZKPORTER_IS_AVAILABLE],
     base_system_contracts |-> base_system_contracts]

\* Mutant: the flag follows the batch number and the hash is the bootloader's.
l1_batch_params_from_input(l1_batch_number, operator_address, l1_batch_timestamp, previous_block_hash, l1_gas_price, fair_l2_gas_price, base_system_contracts) ==
    [context_mode |->
         NewBlock(DerivedBlockContext(
                      [block_number |-> l1_batch_number,
                       block_timestamp |-> l1_batch_timestamp,
                       l1_gas_price |-> l1_gas_price,
                       fair_l2_gas_price |-> fair_l2_gas_price,
                       operator_address |-> operator_address]),
                  previous_block_hash),
     properties |->
         [default_aa_code_hash |->
              h256_to_u256(base_system_contracts.bootloader.hash),
          zkporter_is_available |-> l1_batch_number > 0],
     base_system_contracts |-> base_system_contracts]

l1_batch_params(l1_batch_number, operator_address, l1_batch_timestamp, previous_block_hash, l1_gas_price, fair_l2_gas_price, base_system_contracts) ==
    LET block_properties ==
            [default_aa_code_hash |->
                 h256_to_u256(base_system_contracts.default_aa.hash),
             zkporter_is_available |-> ZKPORTER_IS_AVAILABLE]
        context ==
            [block_number |-> l1_batch_number,
             block_timestamp |-> l1_batch_timestamp,
             l1_gas_price |-> l1_gas_price,
             fair_l2_gas_price |-> fair_l2_gas_price,
             operator_address |-> operator_address]
    IN  [context_mode |-> NewBlock(DerivedBlockContext(context),
                                   previous_block_hash),
         properties |-> block_properties,
         base_system_contracts |-> base_system_contracts]

----------------------------------------------------------------------------
(* Unsigned integers wider than the model checker's, for poll_iters *)

\* A natural number is the sequence of its digits in base BASE, the least
\* significant first and the most significant not zero; zero is <<>>.
BASE == 256

RECURSIVE Normalize(_)
Normalize(a) ==
    IF a = <<>> \/ a[Len(a)] # 0 THEN a
    ELSE Normalize(SubSeq(a, 1, Len(a) - 1))

RECURSIVE ToBig(_)
ToBig(n) == IF n = 0 THEN <<>> ELSE <<n % BASE>> \o ToBig(n \div BASE)

RECURSIVE ToNat(_)
ToNat(a) == IF a = <<>> THEN 0 ELSE a[1] + BASE * ToNat(Tail(a))

Zero == <<>>
One == <<1>>

\* BASE^k
PowBase(k) == [i \in 1..(k + 1) |-> IF i = k + 1 THEN 1 ELSE 0]

Digit(a, i) == IF i <= Len(a) THEN a[i] ELSE 0

RECURSIVE AddFrom(_, _, _, _)
AddFrom(a, b, i, carry) ==
    IF i > Len(a) /\ i > Len(b)
    THEN ToBig(carry)
    ELSE <<(Digit(a, i) + Digit(b, i) + carry) % BASE>>
             \o AddFrom(a, b, i + 1,
                        (Digit(a, i) + Digit(b, i) + carry) \div BASE)

BigAdd(a, b) == Normalize(AddFrom(a, b, 1, 0))

RECURSIVE SubFrom(_, _, _, _)
SubFrom(a, b, i, borrow) ==
    IF i > Len(a)
    THEN <<>>
    ELSE <<(a[i] - Digit(b, i) - borrow) % BASE>>
             \o SubFrom(a, b, i + 1,
                        IF a[i] - Digit(b, i) - borrow < 0 THEN 1 ELSE 0)

\* a - b for a >= b
BigSub(a, b) == Normalize(SubFrom(a, b, 1, 0))

RECURSIVE LessFrom(_, _, _)
LessFrom(a, b, i) ==
    IF i = 0 THEN FALSE
    ELSE IF a[i] # b[i] THEN a[i] < b[i]
    ELSE LessFrom(a, b, i - 1)

BigLess(a, b) ==
    IF Len(a) # Len(b) THEN Len(a) < Len(b) ELSE LessFrom(a, b, Len(a))

BigMax(a, b) == IF BigLess(a, b) THEN b ELSE a

RECURSIVE MulFrom(_, _, _, _)
MulFrom(a, m, i, carry) ==
    IF i > Len(a)
    THEN ToBig(carry)
    ELSE <<(a[i] * m + carry) % BASE>>
             \o MulFrom(a, m, i + 1, (a[i] * m + carry) \div BASE)

\* a * m for a multiplier m below 2^22
MulSmall(a, m) == Normalize(MulFrom(a, m, 1, 0))

\* The quotient digit of r by b, r < BASE * b: the multiples k = 128, 64, .. 1
\* of b are taken off r where they fit.
RECURSIVE QuotDigit(_, _, _, _)
QuotDigit(r, b, k, q) ==
    IF k = 0
    THEN [q |-> q, r |-> r]
    ELSE IF BigLess(r, MulSmall(b, k))
         THEN QuotDigit(r, b, k \div 2, q)
         ELSE QuotDigit(BigSub(r, MulSmall(b, k)), b, k \div 2, q + k)

\* Long division from the most significant digit a[i] down: q and r are the
\* quotient and the remainder of the digits above i.
RECURSIVE DivFrom(_, _, _, _, _)
DivFrom(a, b, i, q, r) ==
    IF i = 0
    THEN [q |-> Normalize(q), r |-> r]
    ELSE LET d == QuotDigit(Normalize(<<a[i]>> \o r), b, BASE \div 2, 0)
         IN  DivFrom(a, b, i - 1, <<d.q>> \o q, d.r)

\* a / b and a % b for b > 0
BigDiv(a, b) == DivFrom(a, b, Len(a), <<>>, <<>>).q
BigRem(a, b) == DivFrom(a, b, Len(a), <<>>, <<>>).r

\* The low digits of a: a % BASE^digits
Truncate(a, digits) == Normalize(SubSeq(a, 1, Min(Len(a), digits)))

\* u64 and usize (a 64-bit target) are eight bytes wide.
U64_DIGITS == 8
USIZE_DIGITS == 8

U64_MAX == BigSub(PowBase(U64_DIGITS), One)

as_u64(a) == Truncate(a, U64_DIGITS)
as_usize(a) == Truncate(a, USIZE_DIGITS)

\* a + b and a - b on u64: whether they overflow, and what they wrap to in a
\* build without overflow checks.
AddOverflows(a, b) == Len(BigAdd(a, b)) > U64_DIGITS
WrappingAdd(a, b) == as_u64(BigAdd(a, b))
SubOverflows(a, b) == BigLess(a, b)
WrappingSub(a, b) ==
    IF BigLess(a, b) THEN BigSub(BigAdd(a, PowBase(U64_DIGITS)), b)
    ELSE BigSub(a, b)

----------------------------------------------------------------------------
(* poll_iters *)

NANOS_PER_MILLI == 1000000
MILLIS_PER_SEC == 1000

\* std::time::Duration: whole seconds (u64) and the nanoseconds below a
\* second (u32).
from_nanos(n) ==
    [secs |-> ToBig(n \div (MILLIS_PER_SEC * NANOS_PER_MILLI)),
     nanos |-> n % (MILLIS_PER_SEC * NANOS_PER_MILLI)]
\* Duration::new(ms / 1000, (ms % 1000) * 1_000_000)
DurationOfMillis(ms) ==
    [secs |-> BigDiv(ms, ToBig(MILLIS_PER_SEC)),
     nanos |-> ToNat(BigRem(ms, ToBig(MILLIS_PER_SEC))) * NANOS_PER_MILLI]
\* ms is a u64
from_millis(ms) == DurationOfMillis(ms)

\* as_millis and as_nanos return u128, which holds them for every Duration.
as_millis(d) ==
    BigAdd(MulSmall(d.secs, MILLIS_PER_SEC), ToBig(d.nanos \div NANOS_PER_MILLI))
as_nanos(d) ==
    BigAdd(MulSmall(MulSmall(d.secs, MILLIS_PER_SEC), NANOS_PER_MILLI),
           ToBig(d.nanos))

\* Mutant: a zero delay is taken as one millisecond instead of asserted against.
poll_iters_clamped(delay_interval, max_wait) ==
    Returns(as_usize(BigMax(
        BigDiv(WrappingSub(WrappingAdd(as_u64(as_millis(max_wait)),
                                       BigMax(as_u64(as_millis(delay_interval)),
                                              One)),
                           One),
               BigMax(as_u64(as_millis(delay_interval)), One)),
        One)))

\* The sum and the difference are u64 operations: a build with overflow checks
\* panics where they overflow, a build without wraps them.
poll_iters(delay_interval, max_wait) ==
    LET max_wait_millis == as_u64(as_millis(max_wait))
        delay_interval_millis == as_u64(as_millis(delay_interval))
        sum == WrappingAdd(max_wait_millis, delay_interval_millis)
    IN  IF ~BigLess(Zero, delay_interval_millis)
        THEN Panics("delay interval must be positive")
        ELSE IF overflow_checks
                  /\ AddOverflows(max_wait_millis, delay_interval_millis)
        THEN Panics("attempt to add with overflow")
        ELSE IF overflow_checks /\ SubOverflows(sum, One)
        THEN Panics("attempt to subtract with overflow")
        ELSE Returns(as_usize(BigMax(
                 BigDiv(WrappingSub(sum, One), delay_interval_millis), One)))

----------------------------------------------------------------------------
(* load_pending_batch *)

\* The future panics in the query q: nothing is returned, nothing runs after.
Panic(q) ==
    /\ pc' = Panicked
    /\ panic' = Some(q)
    /\ queries' = Append(queries, q)

\* Mutant: the last miniblock of the previous L1 batch itself.
pending_miniblock_number_no_increment(range) == range[2]

\* The pending miniblock follows the last miniblock of the previous L1 batch.
\* Batch and miniblock numbers are u32; those of the model stay far below
\* u32::MAX, where the increment cannot overflow.
pending_miniblock_number_of(range) == range[2] + 1

\* Mutant: the transactions in reverse order.
PendingBatchDataReversed(batch_params, txs) ==
    [params |-> batch_params,
     txs |-> [i \in 1..Len(txs) |-> txs[Len(txs) + 1 - i]]]

PendingBatchData(batch_params, txs) == [params |-> batch_params, txs |-> txs]

\* Mutant: an unknown range is taken as "nothing pending" instead of unwrapped.
LoadRangeOptional ==
    /\ pc = "range"
    /\ LET q == Query("miniblock_range", current_l1_batch_number - 1)
           range == get_miniblock_range_of_l1_batch(current_l1_batch_number - 1)
       IN  \E fails \in QueryFails :
              IF fails
              THEN /\ Panic(q)
                   /\ UNCHANGED <<pending_miniblock_number, result>>
              ELSE /\ queries' = Append(queries, q)
                   /\ UNCHANGED panic
                   /\ IF range = None
                      THEN /\ result' = Returned(None)
                           /\ pc' = "done"
                           /\ UNCHANGED pending_miniblock_number
                      ELSE /\ pending_miniblock_number' =
                                  Some(pending_miniblock_number_of(Unwrap(range)))
                           /\ pc' = "header"
                           /\ UNCHANGED result
    /\ UNCHANGED <<pending_miniblock_header, previous_l1_batch_hash, params,
                   misses, sleeps>>
    /\ UNCHANGED <<storageVars, argVars, pollVars, bpVars>>

\* The range of the previous L1 batch; the pending miniblock is the one after
\* its last miniblock.  An unknown range is unwrapped: the future panics.
LoadRange ==
    /\ pc = "range"
    /\ LET q == Query("miniblock_range", current_l1_batch_number - 1)
           range == get_miniblock_range_of_l1_batch(current_l1_batch_number - 1)
       IN  \E fails \in QueryFails :
              IF fails \/ range = None
              THEN /\ Panic(q)
                   /\ UNCHANGED pending_miniblock_number
              ELSE /\ pending_miniblock_number' = 
                          Some(pending_miniblock_number_of(Unwrap(range)))
                   /\ pc' = "header"
                   /\ queries' = Append(queries, q)
                   /\ UNCHANGED panic
    /\ UNCHANGED <<pending_miniblock_header, previous_l1_batch_hash, params,
                   result, misses, sleeps>>
    /\ UNCHANGED <<storageVars, argVars, pollVars, bpVars>>

\* Mutant: a missing header is unwrapped instead of returned as None.
LoadHeaderUnwrap ==
    /\ pc = "header"
    /\ LET q == Query("miniblock_header", Unwrap(pending_miniblock_number))
           header == get_miniblock_header(Unwrap(pending_miniblock_number))
       IN  \E fails \in QueryFails :
              IF fails \/ header = None
              THEN /\ Panic(q)
                   /\ UNCHANGED pending_miniblock_header
              ELSE /\ queries' = Append(queries, q)
                   /\ UNCHANGED panic
                   /\ pending_miniblock_header' = header
                   /\ pc' = "wait"
    /\ UNCHANGED <<pending_miniblock_number, previous_l1_batch_hash, params,
                   result, misses, sleeps>>
    /\ UNCHANGED <<storageVars, argVars, pollVars, bpVars>>

\* Mutant: without a header the state root of the previous L1 batch is polled
\* for, and None is returned only once it is published.
LoadHeaderPollsFirst ==
    /\ pc = "header"
    /\ LET q == Query("miniblock_header", Unwrap(pending_miniblock_number))
           header == get_miniblock_header(Unwrap(pending_miniblock_number))
           poll == Query("prev_l1_batch_hash", current_l1_batch_number)
           root == get_l1_batch_state_root(current_l1_batch_number - 1)
       IN  \E fails \in QueryFails :
              IF fails
              THEN /\ Panic(q)
                   /\ UNCHANGED <<pending_miniblock_header, result, misses>>
              ELSE /\ UNCHANGED panic
                   /\ IF header # None
                      THEN /\ queries' = Append(queries, q)
                           /\ pending_miniblock_header' = header
                           /\ pc' = "wait"
                           /\ UNCHANGED <<result, misses>>
                      ELSE IF root = None
                      THEN /\ queries' = IF misses < MaxPolls
                                         THEN Append(queries, poll)
                                         ELSE queries
                           /\ misses' = Min(misses + 1, MaxPolls)
                           /\ UNCHANGED <<pc, pending_miniblock_header, result>>
                      ELSE /\ queries' = Append(queries, q)
                           /\ result' = Returned(None)
                           /\ pc' = "done"
                           /\ UNCHANGED <<pending_miniblock_header, misses>>
    /\ UNCHANGED <<pending_miniblock_number, previous_l1_batch_hash, params,
                   sleeps>>
    /\ UNCHANGED <<storageVars, argVars, pollVars, bpVars>>

\* The header of the pending miniblock; without one there is nothing pending.
LoadHeader ==
    /\ pc = "header"
    /\ LET q == Query("miniblock_header", Unwrap(pending_miniblock_number))
           header == get_miniblock_header(Unwrap(pending_miniblock_number))
       IN  \E fails \in QueryFails :
              IF fails
              THEN /\ Panic(q)
                   /\ UNCHANGED <<pending_miniblock_header, result>>
              ELSE /\ queries' = Append(queries, q)
                   /\ UNCHANGED panic
                   /\ IF header = None
                      THEN /\ result' = Returned(None)
                           /\ pc' = "done"
                           /\ UNCHANGED pending_miniblock_header
                      ELSE /\ pending_miniblock_header' = header
                           /\ pc' = "wait"
                           /\ UNCHANGED result
    /\ UNCHANGED <<pending_miniblock_number, previous_l1_batch_hash, params,
                   misses, sleeps>>
    /\ UNCHANGED <<storageVars, argVars, pollVars, bpVars>>

\* One poll of wait_for_prev_l1_batch_params: the state root of the previous
\* L1 batch, or a miss that is followed by one delay interval of sleep.  The
\* log keeps the first MaxPolls polls and a poll that fails.
PollStateRoot ==
    /\ pc = "wait"
    /\ LET q == Query("prev_l1_batch_hash", current_l1_batch_number)
           root == get_l1_batch_state_root(current_l1_batch_number - 1)
           logged == IF misses < MaxPolls THEN Append(queries, q) ELSE queries
       IN  \E fails \in QueryFails :
              IF fails
              THEN /\ Panic(q)
                   /\ UNCHANGED <<previous_l1_batch_hash, misses>>
              ELSE /\ queries' = logged
                   /\ UNCHANGED panic
                   /\ IF root = None
                      THEN /\ misses' = Min(misses + 1, MaxPolls)
                           /\ pc' = "sleep"
                           /\ UNCHANGED previous_l1_batch_hash
                      ELSE /\ previous_l1_batch_hash' = Some(h256_to_u256(Unwrap(root)))
                           /\ pc' = "contracts"
                           /\ UNCHANGED misses
    /\ UNCHANGED <<pending_miniblock_number, pending_miniblock_header, params,
                   result, sleeps>>
    /\ UNCHANGED <<storageVars, argVars, pollVars, bpVars>>

\* The sleep of one delay interval between two polls.
SleepInterval ==
    /\ pc = "sleep"
    /\ sleeps' = Min(sleeps + 1, MaxPolls)
    /\ pc' = "wait"
    /\ UNCHANGED <<pending_miniblock_number, pending_miniblock_header,
                   previous_l1_batch_hash, params, result, panic, queries,
                   misses>>
    /\ UNCHANGED <<storageVars, argVars, pollVars, bpVars>>

\* Mutant: one query of the state root, and the zero hash when it is not
\* published yet.
WaitPrevHashOnce ==
    /\ pc = "wait"
    /\ LET q == Query("prev_l1_batch_hash", current_l1_batch_number)
           root == get_l1_batch_state_root(current_l1_batch_number - 1)
       IN  \E fails \in QueryFails :
              IF fails
              THEN /\ Panic(q)
                   /\ UNCHANGED <<previous_l1_batch_hash, misses>>
              ELSE /\ queries' = Append(queries, q)
                   /\ UNCHANGED panic
                   /\ pc' = "contracts"
                   /\ IF root = None
                      THEN /\ misses' = Min(misses + 1, MaxPolls)
                           /\ previous_l1_batch_hash' = Some(ZeroU256)
                      ELSE /\ previous_l1_batch_hash' =
                                  Some(h256_to_u256(Unwrap(root)))
                           /\ UNCHANGED misses
    /\ UNCHANGED <<pending_miniblock_number, pending_miniblock_header, params,
                   result, sleeps>>
    /\ UNCHANGED <<storageVars, argVars, pollVars, bpVars>>

\* Mutant: the wait gives up (panics) at the poll after MaxPolls misses.
WaitPrevHashCapped ==
    \/ /\ pc = "wait"
       /\ misses = MaxPolls
       /\ get_l1_batch_state_root(current_l1_batch_number - 1) = None
       /\ Panic(Query("prev_l1_batch_hash", current_l1_batch_number))
       /\ UNCHANGED <<pending_miniblock_number, pending_miniblock_header,
                      previous_l1_batch_hash, params, result, misses, sleeps>>
       /\ UNCHANGED <<storageVars, argVars, pollVars, bpVars>>
    \/ /\ ~(/\ misses = MaxPolls
            /\ get_l1_batch_state_root(current_l1_batch_number - 1) = None)
       /\ PollStateRoot
    \/ SleepInterval

\* The await of wait_for_prev_l1_batch_params: polls and sleeps, as many as
\* it takes.
WaitPrevHash == PollStateRoot \/ SleepInterval

\* Mutant: the two hashes of the header change places in the query.
LoadContractsSwapped ==
    /\ pc = "contracts"
    /\ LET header == Unwrap(pending_miniblock_header)
           hashes == header.base_system_contracts_hashes
           q == Query("base_system_contracts",
                      <<hashes.default_aa, hashes.bootloader>>)
           base_system_contracts ==
               get_base_system_contracts(hashes.default_aa, hashes.bootloader)
       IN  \E fails \in QueryFails :
              IF fails
              THEN /\ Panic(q)
                   /\ UNCHANGED params
              ELSE /\ queries' = Append(queries, q)
                   /\ UNCHANGED panic
                   /\ params' = Some(l1_batch_params(
                                    current_l1_batch_number,
                                    fee_account,
                                    header.timestamp,
                                    Unwrap(previous_l1_batch_hash),
                                    header.l1_gas_price,
                                    header.l2_fair_gas_price,
                                    base_system_contracts))
                   /\ pc' = "txs"
    /\ UNCHANGED <<pending_miniblock_number, pending_miniblock_header,
                   previous_l1_batch_hash, result, misses, sleeps>>
    /\ UNCHANGED <<storageVars, argVars, pollVars, bpVars>>

\* Mutant: once the system contracts are loaded, the previous hash is waited
\* for and the contracts are loaded a second time.
LoadContractsRepolls ==
    /\ pc = "contracts"
    /\ LET header == Unwrap(pending_miniblock_header)
           hashes == header.base_system_contracts_hashes
           q == Query("base_system_contracts",
                      <<hashes.bootloader, hashes.default_aa>>)
           base_system_contracts ==
               get_base_system_contracts(hashes.bootloader, hashes.default_aa)
       IN  \E fails \in QueryFails :
              IF fails
              THEN /\ Panic(q)
                   /\ UNCHANGED params
              ELSE /\ queries' = Append(queries, q)
                   /\ UNCHANGED panic
                   /\ params' = Some(l1_batch_params(
                                    current_l1_batch_number,
                                    fee_account,
                                    header.timestamp,
                                    Unwrap(previous_l1_batch_hash),
                                    header.l1_gas_price,
                                    header.l2_fair_gas_price,
                                    base_system_contracts))
                   /\ pc' = IF params = None THEN "wait" ELSE "txs"
    /\ UNCHANGED <<pending_miniblock_number, pending_miniblock_header,
                   previous_l1_batch_hash, result, misses, sleeps>>
    /\ UNCHANGED <<storageVars, argVars, pollVars, bpVars>>

\* The system contracts of the header's hashes, then the batch parameters.
LoadContracts ==
    /\ pc = "contracts"
    /\ LET header == Unwrap(pending_miniblock_header)
           hashes == header.base_system_contracts_hashes
           q == Query("base_system_contracts",
                      <<hashes.bootloader, hashes.default_aa>>)
           base_system_contracts ==
               get_base_system_contracts(hashes.bootloader, hashes.default_aa)
       IN  \E fails \in QueryFails :
              IF fails
              THEN /\ Panic(q)
                   /\ UNCHANGED params
              ELSE /\ queries' = Append(queries, q)
                   /\ UNCHANGED panic
                   /\ params' = Some(l1_batch_params(
                                    current_l1_batch_number,
                                    fee_account,
                                    header.timestamp,
                                    Unwrap(previous_l1_batch_hash),
                                    header.l1_gas_price,
                                    header.l2_fair_gas_price,
                                    base_system_contracts))
                   /\ pc' = "txs"
    /\ UNCHANGED <<pending_miniblock_number, pending_miniblock_header,
                   previous_l1_batch_hash, result, misses, sleeps>>
    /\ UNCHANGED <<storageVars, argVars, pollVars, bpVars>>

\* Mutant: the transactions handed out are taken off the storage.
LoadTxsConsuming ==
    /\ pc = "txs"
    /\ LET q == Query("transactions_to_reexecute", <<>>)
           txs == get_transactions_to_reexecute
       IN  \E fails \in QueryFails :
              IF fails
              THEN /\ Panic(q)
                   /\ UNCHANGED <<result, txs_to_reexecute>>
              ELSE /\ queries' = Append(queries, q)
                   /\ UNCHANGED panic
                   /\ result' =
                          Returned(Some(PendingBatchData(Unwrap(params), txs)))
                   /\ txs_to_reexecute' = <<>>
                   /\ pc' = "done"
    /\ UNCHANGED <<pending_miniblock_number, pending_miniblock_header,
                   previous_l1_batch_hash, params, misses, sleeps>>
    /\ UNCHANGED <<miniblock_ranges, miniblock_headers, state_roots,
                   storage_healthy>>
    /\ UNCHANGED <<argVars, pollVars, bpVars>>

\* The transactions to reexecute, and the pending batch is returned.
LoadTxs ==
    /\ pc = "txs"
    /\ LET q == Query("transactions_to_reexecute", <<>>)
           txs == get_transactions_to_reexecute
       IN  \E fails \in QueryFails :
              IF fails
              THEN /\ Panic(q)
                   /\ UNCHANGED result
              ELSE /\ queries' = Append(queries, q)
                   /\ UNCHANGED panic
                   /\ result' = 
                          Returned(Some(PendingBatchData(Unwrap(params), txs)))
                   /\ pc' = "done"
    /\ UNCHANGED <<pending_miniblock_number, pending_miniblock_header,
                   previous_l1_batch_hash, params, misses, sleeps>>
    /\ UNCHANGED <<storageVars, argVars, pollVars, bpVars>>

load_pending_batch ==
    LoadRange \/ LoadHeader \/ WaitPrevHash \/ LoadContracts \/ LoadTxs

\* The await points of the future, where the executor may stop polling it.
AwaitPoints == {"range", "header", "wait", "sleep", "contracts", "txs"}

CancelledInWait == "cancelled in wait"
Cancelled == "cancelled"

\* Mutant: a cancelled future still completes, with None.
CancelReturnsNone ==
    /\ pc \in AwaitPoints
    /\ pc' = IF pc \in {"wait", "sleep"} THEN CancelledInWait ELSE Cancelled
    /\ result' = Returned(None)
    /\ pending_miniblock_number' = None
    /\ pending_miniblock_header' = None
    /\ previous_l1_batch_hash' = None
    /\ params' = None
    /\ UNCHANGED <<panic, queries, misses, sleeps>>
    /\ UNCHANGED <<storageVars, argVars, pollVars, bpVars>>

\* The task that owns the future is cancelled: the future is dropped at the
\* await point it is suspended at, and its locals with it.  Nothing is
\* returned and nothing of it runs again.
Cancel ==
    /\ pc \in AwaitPoints
    /\ pc' = IF pc \in {"wait", "sleep"} THEN CancelledInWait ELSE Cancelled
    /\ pending_miniblock_number' = None
    /\ pending_miniblock_header' = None
    /\ previous_l1_batch_hash' = None
    /\ params' = None
    /\ UNCHANGED <<result, panic, queries, misses, sleeps>>
    /\ UNCHANGED <<storageVars, argVars, pollVars, bpVars>>

\* The tree (a sibling task) publishes the state root of the next sealed L1
\* batch.
PublishStateRoot ==
    /\ pc # "idle"
    /\ \E n \in Batches :
          /\ state_roots[n] = None
          /\ miniblock_ranges[n] # None
          /\ \A k \in Batches : k < n => state_roots[k] # None
          /\ state_roots' = [state_roots EXCEPT ![n] = Some(StateRoot(n))]
    /\ UNCHANGED <<miniblock_ranges, miniblock_headers, txs_to_reexecute,
                   storage_healthy>>
    /\ UNCHANGED <<argVars, taskVars, pollVars, bpVars>>


----------------------------------------------------------------------------
(* Calls of the pure functions *)

\* The durations the unit test of poll_iters uses, in milliseconds.
TestMillis == {0, 100, 101, 200, 201}

\* Durations of 2^63, 2^64 - 1 and 2^64 milliseconds.
HugeDurations ==
    {from_millis(BigDiv(PowBase(U64_DIGITS), ToBig(2))),
     from_millis(U64_MAX),
     DurationOfMillis(PowBase(U64_DIGITS))}

Durations ==
    {from_nanos(k * (NANOS_PER_MILLI \div 2)) : k \in 0..MaxHalfMillis}
        \cup {from_millis(ToBig(ms)) : ms \in TestMillis}
        \cup HugeDurations

CallPollIters ==
    /\ poll_in # NotCalled
    /\ poll_out = NotCalled
    /\ poll_out' = poll_iters(Unwrap(poll_in).delay_interval, Unwrap(poll_in).max_wait)
    /\ UNCHANGED <<overflow_checks, poll_in, storageVars, argVars, taskVars,
                   bpVars>>

BatchParamsInputs ==
    [l1_batch_number : Batches,
     operator_address : Addresses,
     l1_batch_timestamp : 1..MaxGas,
     previous_block_hash : {ZeroU256, h256_to_u256(StateRoot(0))},
     l1_gas_price : 1..MaxGas,
     fair_l2_gas_price : 1..MaxGas,
     base_system_contracts :
         {get_base_system_contracts(H256(1, m), H256(2, m)) : m \in 0..1}]

CallL1BatchParams ==
    /\ bp_in # NotCalled
    /\ bp_out = NotCalled
    /\ bp_out' = Some(l1_batch_params(Unwrap(bp_in).l1_batch_number,
                                 Unwrap(bp_in).operator_address,
                                 Unwrap(bp_in).l1_batch_timestamp,
                                 Unwrap(bp_in).previous_block_hash,
                                 Unwrap(bp_in).l1_gas_price,
                                 Unwrap(bp_in).fair_l2_gas_price,
                                 Unwrap(bp_in).base_system_contracts))
    /\ UNCHANGED <<bp_in, storageVars, argVars, taskVars, pollVars>>

----------------------------------------------------------------------------
(* Specifications *)

\* No load_pending_batch is running and the storage is empty.
NoRecovery ==
    /\ miniblock_ranges = [n \in Batches |-> None]
    /\ miniblock_headers = [m \in Miniblocks |-> None]
    /\ state_roots = [n \in Batches |-> None]
    /\ txs_to_reexecute = <<>>
    /\ storage_healthy = TRUE
    /\ current_l1_batch_number = 1
    /\ fee_account = CHOOSE a \in Addresses : TRUE
    /\ pc = "idle"
    /\ pending_miniblock_number = None
    /\ pending_miniblock_header = None
    /\ previous_l1_batch_hash = None
    /\ params = None
    /\ result = NoResult
    /\ panic = None
    /\ queries = <<>>
    /\ misses = 0
    /\ sleeps = 0

NoPollCall ==
    /\ overflow_checks = FALSE
    /\ poll_in = NotCalled
    /\ poll_out = NotCalled
NoParamsCall == bp_in = NotCalled /\ bp_out = NotCalled

\* load_pending_batch is called on a storage in which the L1 batches 0..k are
\* sealed, the state roots of the batches 0..r, r <= k, are published and the
\* miniblocks 0..top have a header.
Init ==
    /\ \E k \in -1..(MaxBatch - 1) :
          /\ \E lasts \in [0..(MaxBatch - 1) -> 0..(MaxMiniblock - 1)] :
                /\ \A n \in 1..(MaxBatch - 1) : lasts[n - 1] < lasts[n]
                /\ miniblock_ranges = SealedRanges(lasts, k)
          /\ \E r \in -1..k :
                state_roots =
                    [n \in Batches |-> IF n <= r THEN Some(StateRoot(n)) ELSE None]
    /\ \E top \in -1..MaxMiniblock :
          miniblock_headers =
              [m \in Miniblocks |->
                  IF m <= top THEN Some(MiniblockHeader(m)) ELSE None]
    /\ txs_to_reexecute \in SeqsUpTo(Transactions, MaxTxs)
    /\ storage_healthy \in BOOLEAN
    /\ current_l1_batch_number \in 1..MaxBatch
    /\ fee_account \in Addresses
    /\ pc = "range"
    /\ pending_miniblock_number = None
    /\ pending_miniblock_header = None
    /\ previous_l1_batch_hash = None
    /\ params = None
    /\ result = NoResult
    /\ panic = None
    /\ queries = <<>>
    /\ misses = 0
    /\ sleeps = 0
    /\ NoPollCall
    /\ NoParamsCall

Next == load_pending_batch \/ PublishStateRoot

Spec == Init /\ [][Next]_vars

\* The executor keeps polling the future while it can run, and the tree
\* publishes the state root of every sealed L1 batch.
SpecLive ==
    /\ Init
    /\ [][Next]_vars
    /\ WF_vars(load_pending_batch)
    /\ WF_vars(PublishStateRoot)

\* The executor keeps polling the future; the tree may never publish a state
\* root.
SpecLiveAlone ==
    /\ Init
    /\ [][Next]_vars
    /\ WF_vars(load_pending_batch)

\* A run that the owning task may cancel.
NextCancel == load_pending_batch \/ PublishStateRoot \/ Cancel

SpecCancel == Init /\ [][NextCancel]_vars

InitPoll ==
    /\ NoRecovery
    /\ NoParamsCall
    /\ poll_in \in {Some(c) : c \in [delay_interval : Durations, max_wait : Durations]}
    /\ poll_out = NotCalled
    /\ overflow_checks \in BOOLEAN

NextPoll == CallPollIters

SpecPoll == InitPoll /\ [][NextPoll]_vars

InitParams ==
    /\ NoRecovery
    /\ NoPollCall
    /\ bp_in \in {Some(c) : c \in BatchParamsInputs}
    /\ bp_out = NotCalled

NextParams == CallL1BatchParams

SpecParams == InitParams /\ [][NextParams]_vars

----------------------------------------------------------------------------
(* Properties *)

\* What the storage holds for the call in progress.
PrevRange == get_miniblock_range_of_l1_batch(current_l1_batch_number - 1)
RangeKnown == PrevRange # None
Candidate == Unwrap(PrevRange)[2] + 1
CandidateHeader == get_miniblock_header(Candidate)
HeaderStored == RangeKnown /\ CandidateHeader # None
PrevRoot == get_l1_batch_state_root(current_l1_batch_number - 1)

Present == result.returned /\ result.value # None
Empty == result = Returned(None)
Data == Unwrap(result.value)
Context == Data.params.context_mode.derived.context

BigCeilDiv(a, b) == BigDiv(BigAdd(a, BigSub(b, One)), b)

\* C1: when the range of the previous L1 batch is known and the miniblock
\* after its last one has no header, load_pending_batch goes no further than
\* the header query, returns None when it returns, never returns a pending
\* batch, and panics only in a query that the storage failed.
C1_EmptyWhenNoHeader ==
    (RangeKnown /\ CandidateHeader = None) =>
        /\ pc \in {"range", "header", "done", Panicked}
        /\ ~Present
        /\ (pc = "done" => Empty)
        /\ (pc = Panicked => ~storage_healthy)

C1_Witness ==
    /\ RangeKnown
    /\ CandidateHeader = None
    /\ storage_healthy
    /\ pc = "done"
    /\ Empty

\* C2: a returned pending batch holds the transactions to reexecute, in their
\* order, the timestamp and the two gas prices of the header of the candidate
\* miniblock, and the published state root of the previous L1 batch as a U256.
C2_PresentMatchesStorage ==
    Present =>
        /\ Data.txs = get_transactions_to_reexecute
        /\ HeaderStored
        /\ Context.block_timestamp = Unwrap(CandidateHeader).timestamp
        /\ Context.l1_gas_price = Unwrap(CandidateHeader).l1_gas_price
        /\ Context.fair_l2_gas_price =
               Unwrap(CandidateHeader).l2_fair_gas_price
        /\ PrevRoot # None
        /\ Data.params.context_mode.previous_block_hash =
               h256_to_u256(Unwrap(PrevRoot))

C2_Witness ==
    /\ Present
    /\ Len(Data.txs) = 2
    /\ Data.txs[1] # Data.txs[2]
    /\ current_l1_batch_number = 2

\* C3: every header query asks for the miniblock after the last miniblock of
\* the range of the previous L1 batch.
C3_OnlyCandidateQueried ==
    \A i \in 1..Len(queries) :
        queries[i].kind = "miniblock_header" =>
            /\ RangeKnown
            /\ queries[i].arg = Candidate

C3_Witness ==
    /\ current_l1_batch_number = 1
    /\ \E i \in 1..Len(queries) :
          /\ queries[i].kind = "miniblock_header"
          /\ queries[i].arg = Unwrap(miniblock_ranges[0])[2] + 1
    /\ Unwrap(miniblock_ranges[0])[2] > 0

\* C4 (as claimed): for every positive delay interval poll_iters returns
\* max(1, ceil(max_wait / delay_interval)).
C4_CeilOfExactDurations ==
    (/\ poll_out # NotCalled
     /\ BigLess(Zero, as_nanos(Unwrap(poll_in).delay_interval))) =>
        poll_out =
            Returns(BigMax(One,
                           BigCeilDiv(as_nanos(Unwrap(poll_in).max_wait),
                                      as_nanos(Unwrap(poll_in).delay_interval))))

\* C5: with a zero delay interval poll_iters panics, whatever max_wait is.
C5_ZeroDelayPanics ==
    (poll_out # NotCalled /\ as_nanos(Unwrap(poll_in).delay_interval) = Zero) =>
        poll_out = Panics("delay interval must be positive")

C5_Witness ==
    /\ poll_out = Panics("delay interval must be positive")
    /\ as_nanos(Unwrap(poll_in).delay_interval) = Zero
    /\ as_nanos(Unwrap(poll_in).max_wait) = Zero

\* C6: once the wait for the previous hash is over, as many delay intervals
\* were slept through as polls missed the state root, and a run on a healthy
\* storage that found the header ends with a pending batch.
C6_SleptOncePerMiss ==
    /\ (pc \in {"contracts", "txs"} \/ Present) =>
           /\ sleeps >= misses
           /\ PrevRoot # None
    /\ (storage_healthy /\ HeaderStored /\ pc = "done") => Present

C6_Witness ==
    /\ Present
    /\ misses = 2
    /\ sleeps = 2

\* C7: while the header of the candidate miniblock is stored and the state
\* root of the previous L1 batch is not published, load_pending_batch has
\* returned nothing, has not gone past the wait, has panicked only in a query
\* that the storage failed, and in the wait can always poll or sleep again.
C7_BlockedWhileUnpublished ==
    (HeaderStored /\ PrevRoot = None) =>
        /\ ~result.returned
        /\ pc \in {"range", "header", "wait", "sleep", Panicked}
        /\ (pc = Panicked => ~storage_healthy)
        /\ (pc \in {"wait", "sleep"} => ENABLED WaitPrevHash)

C7_Witness ==
    /\ HeaderStored
    /\ PrevRoot = None
    /\ storage_healthy
    /\ pc = "wait"
    /\ misses = MaxPolls
    /\ sleeps = MaxPolls

\* C8: on a healthy storage that holds the range of the previous L1 batch and
\* the header of the candidate miniblock, load_pending_batch eventually returns
\* a pending batch.
C8_EventuallyPresent ==
    (storage_healthy /\ HeaderStored) ~> Present

C8_Witness ==
    /\ storage_healthy
    /\ Present
    /\ misses > 0

\* C9: an unknown range of the previous L1 batch makes the first query the
\* last: load_pending_batch panics in it and returns nothing.  A panic in any
\* query ends the run with nothing returned, and a query other than the poll
\* of the previous hash was issued once.
C9_FailureAborts ==
    /\ (pc # "range" /\ ~RangeKnown) =>
           /\ pc = Panicked
           /\ queries = <<Query("miniblock_range", current_l1_batch_number - 1)>>
           /\ panic = Some(queries[1])
    /\ (pc = Panicked) <=> (panic # None)
    /\ panic # None =>
           /\ ~result.returned
           /\ queries # <<>>
           /\ queries[Len(queries)] = Unwrap(panic)
           /\ (Unwrap(panic).kind # "prev_l1_batch_hash" =>
                  Cardinality({i \in 1..Len(queries) :
                                  queries[i] = Unwrap(panic)}) = 1)
           /\ ~ENABLED load_pending_batch

C9_Witness ==
    /\ ~RangeKnown
    /\ storage_healthy
    /\ pc = Panicked
    /\ Len(queries) = 1

\* C10: l1_batch_params returns, for every input, a NewBlock context mode with
\* the given previous hash, the context fields equal to the arguments of the
\* same name and the given base system contracts.
C10_ParamsCarryInputs ==
    /\ (bp_out = NotCalled) => ENABLED CallL1BatchParams
    /\ (bp_out # NotCalled) =>
           LET in == Unwrap(bp_in)
               out == Unwrap(bp_out)
               context == out.context_mode.derived.context
           IN  /\ out.context_mode.tag = "NewBlock"
               /\ out.context_mode.previous_block_hash = in.previous_block_hash
               /\ context.block_number = in.l1_batch_number
               /\ context.block_timestamp = in.l1_batch_timestamp
               /\ context.l1_gas_price = in.l1_gas_price
               /\ context.fair_l2_gas_price = in.fair_l2_gas_price
               /\ context.operator_address = in.operator_address
               /\ out.base_system_contracts = in.base_system_contracts

C10_Witness ==
    /\ bp_out # NotCalled
    /\ Unwrap(bp_in).l1_gas_price # Unwrap(bp_in).fair_l2_gas_price
    /\ Unwrap(bp_in).l1_batch_timestamp # Unwrap(bp_in).l1_gas_price
    /\ Unwrap(bp_in).previous_block_hash # ZeroU256

\* The H256 of a U256: its bytes, most significant first.
u256_to_h256(u) == [i \in 1..HashLen |-> u[HashLen + 1 - i]]

\* The hash the storage keeps a system contract's code under.
ContentHash(code) == code[2]

\* C12: in the value l1_batch_params returns, zkporter_is_available is the
\* constant ZKPORTER_IS_AVAILABLE for every input, and default_aa_code_hash is
\* the content hash of the default account abstraction code of the base system
\* contracts passed in.
C12_FlagConstantHashOfDefaultAA ==
    (bp_out # NotCalled) =>
        LET in == Unwrap(bp_in)
            out == Unwrap(bp_out)
        IN  /\ out.properties.zkporter_is_available = ZKPORTER_IS_AVAILABLE
            /\ u256_to_h256(out.properties.default_aa_code_hash) =
                   ContentHash(in.base_system_contracts.default_aa.code)

C12_Witness ==
    /\ bp_out # NotCalled
    /\ Unwrap(bp_in).l1_batch_number > 0
    /\ Unwrap(bp_in).base_system_contracts.default_aa.hash = H256(2, 1)
    /\ Unwrap(bp_in).base_system_contracts.bootloader.hash = H256(1, 1)
    /\ Unwrap(bp_out).properties.default_aa_code_hash # ZeroU256

\* C13: no step of load_pending_batch, whatever it ends in, changes the
\* storage: the ranges, the headers, the state roots and the transactions to
\* reexecute are after the step what they were before it.
C13_OnlyReads ==
    [][load_pending_batch =>
           /\ miniblock_ranges' = miniblock_ranges
           /\ miniblock_headers' = miniblock_headers
           /\ state_roots' = state_roots
           /\ txs_to_reexecute' = txs_to_reexecute
           /\ storage_healthy' = storage_healthy]_vars

C13_Witness ==
    /\ Present
    /\ Data.txs # <<>>
    /\ txs_to_reexecute = Data.txs
    /\ misses > 0
    /\ state_roots[current_l1_batch_number - 1] # None

\* C14: a load_pending_batch cancelled in the wait for the previous hash has
\* returned nothing and never does, holds no parameters or other local any
\* more, runs no further step, and the cancellation leaves the storage as it
\* was.
C14_CancelledInWaitDeliversNothing ==
    /\ [](pc = CancelledInWait =>
             /\ result = NoResult
             /\ params = None
             /\ pending_miniblock_header = None
             /\ previous_l1_batch_hash = None
             /\ panic = None
             /\ ~ENABLED load_pending_batch)
    /\ [][Cancel => UNCHANGED storageVars]_vars
    /\ [][pc = CancelledInWait => pc' = CancelledInWait]_vars

C14_Witness ==
    /\ pc = CancelledInWait
    /\ HeaderStored
    /\ PrevRoot = None
    /\ misses > 0
    /\ sleeps > 0
    /\ result = NoResult

\* The order the claim gives the kinds of query.
QueryOrder ==
    <<"miniblock_range", "miniblock_header", "prev_l1_batch_hash",
      "base_system_contracts", "transactions_to_reexecute">>

Rank(kind) == CHOOSE r \in DOMAIN QueryOrder : QueryOrder[r] = kind

\* C15: the queries of a run are issued in the order range, header, previous
\* hash, system contracts, transactions: the first is the range query, each
\* later query is of the kind after the one before it, or both are polls of
\* the previous hash; so every query but that poll is issued at most once.
C15_FixedQueryOrder ==
    /\ queries # <<>> => queries[1].kind = QueryOrder[1]
    /\ \A i \in 1..(Len(queries) - 1) :
          \/ Rank(queries[i + 1].kind) = Rank(queries[i].kind) + 1
          \/ /\ queries[i].kind = "prev_l1_batch_hash"
             /\ queries[i + 1].kind = "prev_l1_batch_hash"
    /\ \A i, j \in 1..Len(queries) :
          (i # j /\ queries[i].kind = queries[j].kind) =>
              queries[i].kind = "prev_l1_batch_hash"
    /\ Present => Len(queries) >= Len(QueryOrder)

C15_Witness ==
    /\ Present
    /\ Len(queries) = Len(QueryOrder) + 2
    /\ queries[Len(queries)].kind = "transactions_to_reexecute"
    /\ Cardinality({i \in 1..Len(queries) :
                        queries[i].kind = "prev_l1_batch_hash"}) = 3

\* The queries a run issues after the header query.
LaterQueries ==
    {i \in 1..Len(queries) :
        queries[i].kind \in {"prev_l1_batch_hash", "base_system_contracts",
                             "transactions_to_reexecute"}}

\* C16: when the candidate miniblock has no header, load_pending_batch issues
\* no query of the previous hash, of the system contracts or of the
\* transactions, and on a healthy storage it returns None after the range and
\* the header query, also when the state root of the previous L1 batch is
\* never published.
C16_EmptyWithoutLaterQueries ==
    /\ []((RangeKnown /\ CandidateHeader = None) =>
             /\ LaterQueries = {}
             /\ misses = 0
             /\ sleeps = 0
             /\ (Empty =>
                    queries =
                        <<Query("miniblock_range", current_l1_batch_number - 1),
                          Query("miniblock_header", Candidate)>>))
    /\ ((storage_healthy /\ RangeKnown /\ CandidateHeader = None) ~> Empty)

C16_Witness ==
    /\ Empty
    /\ PrevRoot = None
    /\ Len(queries) = 2
    /\ LaterQueries = {}
    /\ current_l1_batch_number = 2

\* C17: a returned pending batch has the batch number current_l1_batch_number
\* and the operator address fee_account in its context, the context mode
\* NewBlock, and the base system contracts that the storage returns for the
\* bootloader and the default account abstraction hash of the header of the
\* candidate miniblock.
C17_PresentContextAndContracts ==
    Present =>
        /\ Context.block_number = current_l1_batch_number
        /\ Context.operator_address = fee_account
        /\ Data.params.context_mode.tag = "NewBlock"
        /\ HeaderStored
        /\ Data.params.base_system_contracts =
               get_base_system_contracts(
                   Unwrap(CandidateHeader).base_system_contracts_hashes.bootloader,
                   Unwrap(CandidateHeader).base_system_contracts_hashes.default_aa)

C17_Witness ==
    /\ Present
    /\ current_l1_batch_number = 2
    /\ fee_account = "0xbb"
    /\ Candidate = MaxMiniblock
    /\ Data.params.base_system_contracts.bootloader.hash = H256(1, Candidate)
    /\ Data.params.base_system_contracts.default_aa.hash = H256(2, Candidate)

\* C18 (as claimed): with the durations floored to whole milliseconds, for a
\* delay of at least 1 ms and max_wait + delay - 1 below 2^64 poll_iters
\* returns max(1, ceil(max_wait / delay)), and for a delay below 1 ms it
\* panics as for a zero delay.
C18_CeilOfWholeMillis ==
    (poll_out # NotCalled) =>
        LET delay_ms == as_millis(Unwrap(poll_in).delay_interval)
            max_wait_ms == as_millis(Unwrap(poll_in).max_wait)
        IN  IF delay_ms = Zero
            THEN poll_out = Panics("delay interval must be positive")
            ELSE BigLess(BigSub(BigAdd(max_wait_ms, delay_ms), One),
                         PowBase(U64_DIGITS)) =>
                     poll_out =
                         Returns(BigMax(One, BigCeilDiv(max_wait_ms, delay_ms)))

====
